---- MODULE Spec2Model ----
(***************************************************************************)
(* Model of megaease/metrics-go: the per-route HTTP statistics aggregator  *)
(* (HTTPStat), its status-code counter, and the hub's route-key map with   *)
(* its tick loop.                                                          *)
(*                                                                         *)
(* Goroutines are modelled as threads with a program counter; every atomic *)
(* operation (sync/atomic call, mutex operation, map access) is one step.  *)
(*                                                                         *)
(* Numbers: durations are carried in microseconds and converted with       *)
(* Milliseconds; float64 rates are carried in fixed point (RateScale units *)
(* per event and tick); uint64 fields are naturals far below 2^64.         *)
(***************************************************************************)
EXTENDS Integers, Sequences, FiniteSets, TLC

\* ----------------------------------------------------------------- bounds
\* Number of goroutines calling into one aggregator.
NThreads == 2
\* Number of calls (Stat or Status) the goroutines issue altogether.
MaxCalls == 3
\* The same, where the goroutines are scheduled fairly.
FairCalls == 2

\* Number of UpdateHTTPRequestMetrics calls the goroutines issue altogether.
HubCalls == 3
\* The same, where the tick loop runs beside them.
RunCalls == 2
\* Number of ticks of the hub's background loop.
MaxTicks == 1
\* Number of calls (Count or Stat) on a status-code counter used on its own.
CountCalls == 4
\* Number of Codes-then-Reset rounds on it.
Windows == 2
\* Number of calls of the hub's metric methods.
MetricCalls == 4
\* Number of calls of the metric methods of two hubs in one process.
TwoHubCalls == 4

Threads == 1..NThreads
NoThread == 0
\* The goroutine of MetricsHub.run.
Ticker == NThreads + 1
Procs == Threads \cup {Ticker}

\* ------------------------------------------------------- program constants
\* math.MaxUint64, the initial value of HTTPStat.min: represented by the
\* largest integer of the model checker (every duration is far below it).
MaxUint64 == 2147483647
\* len(cc.counter): the status-code counter has slots 0..999.
CounterLen == 1000
\* Fixed point: one event per tick is RateScale units of rate; a ratio of 1
\* is RateScale.
RateScale == 1000
\* alpha = 1 - exp(-5/60/T) of the three moving averages, in 1/RateScale.
Alpha1 == 80
Alpha5 == 17
Alpha15 == 6

\* ------------------------------------------------------------------ inputs
\* RequestMetric values handed to Stat. Duration is in microseconds.
RequestMetrics ==
    { [StatusCode |-> 200,  Duration |-> 1500, ReqSize |-> 1, RespSize |-> 2],
      [StatusCode |-> 404,  Duration |-> 3999, ReqSize |-> 0, RespSize |-> 1],
      [StatusCode |-> 1000, Duration |-> 400,  ReqSize |-> 2, RespSize |-> 0] }
\* A nil *RequestMetric.
NilMetric == [StatusCode |-> 0, Duration |-> -1, ReqSize |-> 0, RespSize |-> 0]

\* Route keys (httpStatsKey): method and path.
Keys == { <<"GET", "/orders">>, <<"POST", "/orders">> }
NoKey == <<"", "">>

\* The MetricsHub instances of the process: the hub most calls are made on,
\* and a second one made by another NewMetricsHub.
Hub1 == 1
Hub2 == 2
Hubs == {Hub1, Hub2}

\* The nil map[string]string (the label maps of the calls are never empty, so
\* the empty map stands for nil alone): it reads as empty, a write to it panics.
NilLabels == <<>>
PanicNilMap == "panic: assignment to entry in nil map"

\* The calls of one scenario, in order: ten requests answered 200 in 50ms with
\* 100 and 200 bytes, then two answered 500 in 500ms.
Scenario ==
    [ i \in 1..12 |->
        IF i <= 10
        THEN [StatusCode |-> 200, Duration |-> 50000, ReqSize |-> 100, RespSize |-> 200]
        ELSE [StatusCode |-> 500, Duration |-> 500000, ReqSize |-> 0, RespSize |-> 0] ]

\* The slots of cc.counter that the inputs can touch.
Slots ==
    { c \in { r.StatusCode : r \in RequestMetrics } \cup { Scenario[i].StatusCode : i \in 1..12 } :
        0 <= c /\ c < CounterLen }

VARIABLES
    stats,      \* the HTTPStat objects allocated so far (a sequence; index = identity)
    obs,        \* history per HTTPStat: completed Stat calls, those with code >= 400,
                \* and those completed since the last Status
    pc,         \* pc[t]: position of goroutine t
    m,          \* m[t]: the *RequestMetric argument of goroutine t
    cur,        \* cur[t]: the HTTPStat goroutine t operates on (0: none)
    local,      \* local[t]: minN / maxN of the compare-and-swap loops
    status,     \* status[t]: the Status under construction / last returned to t
    calls,      \* number of calls the goroutines still issue
    httpStats,  \* hub.httpStats: map from route key to HTTPStat (index into stats)
    httpMetrics,\* hub.httpMetrics: the exporter's series, per (method, path)
    key,        \* key[t]: the httpStatsKey goroutine t works on
    mapWriting, \* goroutines inside an assignment to hub.httpStats
    crashed,    \* the runtime ended the process (fatal error: concurrent map access)
    iter,       \* the range loop of run: keys present at its start, keys visited
    ticks,      \* number of ticks served
    direct,     \* a HTTPStatusCodeCounter used on its own, and the callers' positions
    metricsRegistrations, \* metricsRegistrations[h]: hub h's hub.metricsRegistrations, the
                \* map from name to *MetricRegistration
    collectors, \* the package's gaugeMap and counterMap: the vectors and their series
    ret,        \* the error returned by the last call of a hub's metric methods
                \* (or the panic that ended the process)
    registry,   \* registry[h]: the collectors registered in hub h's hub.registry
    callerLabels \* the caller's labels map after the last UpdateMetrics, IncMetrics
                \* or DecMetrics call

aggVars == <<stats, obs, pc, m, cur, local, status, calls>>
hubVars == <<httpStats, httpMetrics, key, mapWriting, crashed, iter, ticks, direct, metricsRegistrations, collectors, ret, registry, callerLabels>>
vars == <<stats, obs, pc, m, cur, local, status, calls,
          httpStats, httpMetrics, key, mapWriting, crashed, iter, ticks, direct, metricsRegistrations, collectors, ret, registry, callerLabels>>

\* ------------------------------------------------------------ EWMA (rates)
\* metrics.NewEWMA1/5/15: nothing counted, no rate yet.
NewEWMA == [uncounted |-> 0, rate |-> 0, init |-> FALSE]

\* EWMA.Update(n): atomic add to the uncounted events.
EWMAUpdate(a, n) == [a EXCEPT !.uncounted = @ + n]

\* EWMA.Tick(): the first tick sets rate = instantRate, the later ones decay by
\* rate += alpha * (instantRate - rate).
EWMATick(a, alpha) ==
    LET instantRate == a.uncounted * RateScale
    IN  [ uncounted |-> 0,
          rate |-> IF a.init
                   THEN a.rate + ((alpha * (instantRate - a.rate)) \div RateScale)
                   ELSE instantRate,
          init |-> TRUE ]

\* EWMA.Rate()
Rate(a) == a.rate

\* ------------------------------------------------------- status-code counter
\* helper.New(): all slots zero.
NewCounter == [c \in Slots |-> 0]

\* HTTPStatusCodeCounter.Count(code)
CounterCount(counter, code) ==
    IF code < 0 \/ code >= CounterLen
    THEN counter
    ELSE [counter EXCEPT ![code] = @ + 1]

\* HTTPStatusCodeCounter.Reset()
CounterReset(counter) == [c \in DOMAIN counter |-> 0]

\* HTTPStatusCodeCounter.Codes(): the sparse map of the non-zero slots.
CounterCodes(counter) ==
    [c \in { x \in DOMAIN counter : counter[x] > 0 } |-> counter[c]]

\* ----------------------------------------------------------- duration sampler
\* time.Duration.Milliseconds(): truncating division.
Milliseconds(d) == d \div 1000

\* helper.NewDurationSampler(): the empty sample set (kept sorted).
NewDurationSampler == <<>>

RECURSIVE InsertSorted(_, _)
InsertSorted(s, x) ==
    IF s = <<>> THEN <<x>>
    ELSE IF x <= Head(s) THEN <<x>> \o s
    ELSE <<Head(s)>> \o InsertSorted(Tail(s), x)

\* DurationSampler.Update(d)
SamplerUpdate(s, d) == InsertSorted(s, Milliseconds(d))

\* DurationSampler.Reset()
SamplerReset(s) == <<>>

\* The ranks of DurationSampler.Percentiles(), in 1/1000.
PercentileRanks == <<250, 500, 750, 950, 980, 990, 999>>

\* One percentile of the sorted sample; 0 for the empty sample.
Percentile(s, rank) ==
    IF Len(s) = 0 THEN 0
    ELSE LET k == (rank * Len(s) + 999) \div 1000
         IN  s[IF k < 1 THEN 1 ELSE k]

\* DurationSampler.Percentiles()
SamplerPercentiles(s) == [i \in 1..7 |-> Percentile(s, PercentileRanks[i])]

\* ------------------------------------------------------------------ HTTPStat
\* NewHTTPStat()
NewHTTPStat ==
    [ readers |-> {}, writer |-> NoThread,
      count |-> 0, rate1 |-> NewEWMA, rate5 |-> NewEWMA, rate15 |-> NewEWMA,
      errCount |-> 0, errRate1 |-> NewEWMA, errRate5 |-> NewEWMA, errRate15 |-> NewEWMA,
      total |-> 0, min |-> MaxUint64, max |-> 0,
      durationSampler |-> NewDurationSampler,
      reqSize |-> 0, respSize |-> 0,
      cc |-> NewCounter ]

\* History of a new HTTPStat, created for route key k (NoKey: created directly).
NewObs(k) ==
    [ n |-> 0, k |-> 0, window |-> 0, key |-> k,
      lo |-> 0, hi |-> 0, sum |-> 0, req |-> 0, resp |-> 0,
      codes |-> [c \in Slots |-> 0], reported |-> [c \in Slots |-> 0] ]

\* RequestMetric.isErr()
isErr(r) == r.StatusCode >= 400

\* The history o after a Stat(r) has completed: the calls, those with an error
\* status, those of the window, and the smallest, the largest and the sum of
\* the durations in milliseconds, the sums of the byte counts and the calls per
\* status code.
Observed(o, r) ==
    LET d == Milliseconds(r.Duration)
    IN  [o EXCEPT !.n = @ + 1,
                  !.k = @ + (IF r.StatusCode >= 400 THEN 1 ELSE 0),
                  !.window = @ + 1,
                  !.lo = IF o.n = 0 \/ d < @ THEN d ELSE @,
                  !.hi = IF o.n = 0 \/ d > @ THEN d ELSE @,
                  !.sum = @ + d,
                  !.req = @ + r.ReqSize,
                  !.resp = @ + r.RespSize,
                  !.codes = [c \in Slots |-> @[c] + IF r.StatusCode = c THEN 1 ELSE 0]]

\* The history o after a Status has returned st: a new window begins, and the
\* codes of st are added to those reported so far.
Returned(o, st) ==
    [o EXCEPT !.window = 0,
              !.reported = [c \in Slots |->
                               @[c] + IF c \in DOMAIN st.Codes THEN st.Codes[c] ELSE 0]]

NoLocal == [minN |-> 0, maxN |-> 0]

\* The zero value of Status.
NoStatus ==
    [ Count |-> 0, M1 |-> 0, M5 |-> 0, M15 |-> 0,
      ErrCount |-> 0, M1Err |-> 0, M5Err |-> 0, M15Err |-> 0,
      M1ErrPercent |-> 0, M5ErrPercent |-> 0, M15ErrPercent |-> 0,
      Min |-> 0, Max |-> 0, Mean |-> 0,
      P |-> [i \in 1..7 |-> 0],
      ReqSize |-> 0, RespSize |-> 0,
      Codes |-> <<>> ]

hs(t) == stats[cur[t]]

\* Idle goroutines are interchangeable: a new call runs on the first idle one.
FirstIdle(t) == pc[t] = "idle" /\ \A u \in Threads : u < t => pc[u] # "idle"

\* Plausible slip: Stat takes no lock, so a Status does not wait for it.
StatRLockMut(t) ==
    /\ pc[t] = "rlock"
    /\ pc' = [pc EXCEPT ![t] = "count"]
    /\ UNCHANGED <<stats, obs, m, cur, local, status, calls>>
    /\ UNCHANGED hubVars

\* hs.mutex.RLock(): blocks while a writer holds or waits for the lock.
StatRLock(t) ==
    /\ pc[t] = "rlock"
    /\ hs(t).writer = NoThread
    /\ stats' = [stats EXCEPT ![cur[t]].readers = @ \cup {t}]
    /\ pc' = [pc EXCEPT ![t] = "count"]
    /\ UNCHANGED <<obs, m, cur, local, status, calls>>
    /\ UNCHANGED hubVars

\* Plausible slip: count tallies the successful requests only.
StatCountMut(t) ==
    /\ pc[t] = "count"
    /\ stats' = [stats EXCEPT ![cur[t]] =
                    [@ EXCEPT !.count = IF isErr(m[t]) THEN @ ELSE @ + 1,
                              !.rate1 = EWMAUpdate(@, 1),
                              !.rate5 = EWMAUpdate(@, 1),
                              !.rate15 = EWMAUpdate(@, 1)]]
    /\ pc' = [pc EXCEPT ![t] = "err"]
    /\ UNCHANGED <<obs, m, cur, local, status, calls>>
    /\ UNCHANGED hubVars

\* atomic.AddUint64(&hs.count, 1); rate1/5/15.Update(1)
StatCount(t) ==
    /\ pc[t] = "count"
    /\ stats' = [stats EXCEPT ![cur[t]] =
                    [@ EXCEPT !.count = @ + 1,
                              !.rate1 = EWMAUpdate(@, 1),
                              !.rate5 = EWMAUpdate(@, 1),
                              !.rate15 = EWMAUpdate(@, 1)]]
    /\ pc' = [pc EXCEPT ![t] = "err"]
    /\ UNCHANGED <<obs, m, cur, local, status, calls>>
    /\ UNCHANGED hubVars

\* if m.isErr() { atomic.AddUint64(&hs.errCount, 1); errRate1/5/15.Update(1) }
StatErr(t) ==
    /\ pc[t] = "err"
    /\ stats' = IF isErr(m[t])
                THEN [stats EXCEPT ![cur[t]] =
                        [@ EXCEPT !.errCount = @ + 1,
                                  !.errRate1 = EWMAUpdate(@, 1),
                                  !.errRate5 = EWMAUpdate(@, 1),
                                  !.errRate15 = EWMAUpdate(@, 1)]]
                ELSE stats
    /\ pc' = [pc EXCEPT ![t] = "total"]
    /\ UNCHANGED <<obs, m, cur, local, status, calls>>
    /\ UNCHANGED hubVars

\* Plausible slip: the duration is added in microseconds.
StatTotalMut(t) ==
    /\ pc[t] = "total"
    /\ stats' = [stats EXCEPT ![cur[t]].total = @ + m[t].Duration]
    /\ pc' = [pc EXCEPT ![t] = "minload"]
    /\ UNCHANGED <<obs, m, cur, local, status, calls>>
    /\ UNCHANGED hubVars

\* duration := uint64(m.Duration.Milliseconds()); atomic.AddUint64(&hs.total, duration)
StatTotal(t) ==
    /\ pc[t] = "total"
    /\ stats' = [stats EXCEPT ![cur[t]].total = @ + Milliseconds(m[t].Duration)]
    /\ pc' = [pc EXCEPT ![t] = "minload"]
    /\ UNCHANGED <<obs, m, cur, local, status, calls>>
    /\ UNCHANGED hubVars

\* minN := atomic.LoadUint64(&hs.min); if duration >= minN { break }
StatMinLoad(t) ==
    /\ pc[t] = "minload"
    /\ IF Milliseconds(m[t].Duration) >= hs(t).min
       THEN /\ pc' = [pc EXCEPT ![t] = "maxload"]
            /\ local' = local
       ELSE /\ pc' = [pc EXCEPT ![t] = "mincas"]
            /\ local' = [local EXCEPT ![t].minN = hs(t).min]
    /\ UNCHANGED <<stats, obs, m, cur, status, calls>>
    /\ UNCHANGED hubVars

\* Plausible slip: a plain store in place of the compare-and-swap.
StatMinCASMut(t) ==
    /\ pc[t] = "mincas"
    /\ stats' = [stats EXCEPT ![cur[t]].min = Milliseconds(m[t].Duration)]
    /\ pc' = [pc EXCEPT ![t] = "maxload"]
    /\ local' = [local EXCEPT ![t].minN = 0]
    /\ UNCHANGED <<obs, m, cur, status, calls>>
    /\ UNCHANGED hubVars

\* if atomic.CompareAndSwapUint64(&hs.min, minN, duration) { break }
StatMinCAS(t) ==
    /\ pc[t] = "mincas"
    /\ IF hs(t).min = local[t].minN
       THEN /\ stats' = [stats EXCEPT ![cur[t]].min = Milliseconds(m[t].Duration)]
            /\ pc' = [pc EXCEPT ![t] = "maxload"]
       ELSE /\ stats' = stats
            /\ pc' = [pc EXCEPT ![t] = "minload"]
    /\ local' = [local EXCEPT ![t].minN = 0]
    /\ UNCHANGED <<obs, m, cur, status, calls>>
    /\ UNCHANGED hubVars

\* maxN := atomic.LoadUint64(&hs.max); if duration <= maxN { break }
StatMaxLoad(t) ==
    /\ pc[t] = "maxload"
    /\ IF Milliseconds(m[t].Duration) <= hs(t).max
       THEN /\ pc' = [pc EXCEPT ![t] = "sample"]
            /\ local' = local
       ELSE /\ pc' = [pc EXCEPT ![t] = "maxcas"]
            /\ local' = [local EXCEPT ![t].maxN = hs(t).max]
    /\ UNCHANGED <<stats, obs, m, cur, status, calls>>
    /\ UNCHANGED hubVars

\* Plausible slip: a plain store of the duration in place of the compare-and-swap.
StatMaxCASMut(t) ==
    /\ pc[t] = "maxcas"
    /\ stats' = [stats EXCEPT ![cur[t]].max = Milliseconds(m[t].Duration)]
    /\ pc' = [pc EXCEPT ![t] = "sample"]
    /\ local' = [local EXCEPT ![t].maxN = 0]
    /\ UNCHANGED <<obs, m, cur, status, calls>>
    /\ UNCHANGED hubVars

\* if atomic.CompareAndSwapUint64(&hs.max, maxN, duration) { break }
StatMaxCAS(t) ==
    /\ pc[t] = "maxcas"
    /\ IF hs(t).max = local[t].maxN
       THEN /\ stats' = [stats EXCEPT ![cur[t]].max = Milliseconds(m[t].Duration)]
            /\ pc' = [pc EXCEPT ![t] = "sample"]
       ELSE /\ stats' = stats
            /\ pc' = [pc EXCEPT ![t] = "maxload"]
    /\ local' = [local EXCEPT ![t].maxN = 0]
    /\ UNCHANGED <<obs, m, cur, status, calls>>
    /\ UNCHANGED hubVars

\* hs.durationSampler.Update(m.Duration)
StatSample(t) ==
    /\ pc[t] = "sample"
    /\ stats' = [stats EXCEPT ![cur[t]].durationSampler = SamplerUpdate(@, m[t].Duration)]
    /\ pc' = [pc EXCEPT ![t] = "size"]
    /\ UNCHANGED <<obs, m, cur, local, status, calls>>
    /\ UNCHANGED hubVars

\* atomic.AddUint64(&hs.reqSize, m.ReqSize); atomic.AddUint64(&hs.respSize, m.RespSize)
StatSize(t) ==
    /\ pc[t] = "size"
    /\ stats' = [stats EXCEPT ![cur[t]] =
                    [@ EXCEPT !.reqSize = @ + m[t].ReqSize,
                              !.respSize = @ + m[t].RespSize]]
    /\ pc' = [pc EXCEPT ![t] = "code"]
    /\ UNCHANGED <<obs, m, cur, local, status, calls>>
    /\ UNCHANGED hubVars

\* hs.cc.Count(m.StatusCode)
StatCode(t) ==
    /\ pc[t] = "code"
    /\ stats' = [stats EXCEPT ![cur[t]].cc = CounterCount(@, m[t].StatusCode)]
    /\ pc' = [pc EXCEPT ![t] = "runlock"]
    /\ UNCHANGED <<obs, m, cur, local, status, calls>>
    /\ UNCHANGED hubVars

\* defer hs.mutex.RUnlock(): Stat returns.
StatRUnlock(t) ==
    /\ pc[t] = "runlock"
    /\ stats' = [stats EXCEPT ![cur[t]].readers = @ \ {t}]
    /\ obs' = [obs EXCEPT ![cur[t]] = Observed(@, m[t])]
    /\ pc' = [pc EXCEPT ![t] = "idle"]
    /\ m' = [m EXCEPT ![t] = NilMetric]
    /\ UNCHANGED <<cur, local, status, calls>>
    /\ UNCHANGED hubVars

\* A float64 ratio a/b in fixed point.
Ratio(a, b) == (a * RateScale) \div b

\* Plausible slip: Status runs without taking the lock.
StatusLockMut(t) ==
    /\ pc[t] = "lock"
    /\ pc' = [pc EXCEPT ![t] = "tick"]
    /\ UNCHANGED <<stats, obs, m, cur, local, status, calls>>
    /\ UNCHANGED hubVars

\* hs.mutex.Lock(), first half: the writer announces itself; from here on new
\* RLock calls block (sync.RWMutex prefers the waiting writer).
StatusLock(t) ==
    /\ pc[t] = "lock"
    /\ hs(t).writer = NoThread
    /\ stats' = [stats EXCEPT ![cur[t]].writer = t]
    /\ pc' = [pc EXCEPT ![t] = "acquire"]
    /\ UNCHANGED <<obs, m, cur, local, status, calls>>
    /\ UNCHANGED hubVars

\* Plausible slip: Lock returns while readers still hold the lock.
StatusAcquireMut(t) ==
    /\ pc[t] = "acquire"
    /\ pc' = [pc EXCEPT ![t] = "tick"]
    /\ UNCHANGED <<stats, obs, m, cur, local, status, calls>>
    /\ UNCHANGED hubVars

\* hs.mutex.Lock(), second half: wait until the readers have left.
StatusAcquire(t) ==
    /\ pc[t] = "acquire"
    /\ hs(t).readers = {}
    /\ pc' = [pc EXCEPT ![t] = "tick"]
    /\ UNCHANGED <<stats, obs, m, cur, local, status, calls>>
    /\ UNCHANGED hubVars

\* The three error percentages as Status computes them: every branch assigns
\* m1ErrPercent; m5ErrPercent and m15ErrPercent keep their initial 0.0.
ErrPercents(m1, m5, m15, m1Err, m5Err, m15Err) ==
    LET p0 == 0
        p1 == IF m1 > 0 THEN Ratio(m1Err, m1) ELSE p0
        p2 == IF m5 > 0 THEN Ratio(m5Err, m5) ELSE p1
        p3 == IF m15 > 0 THEN Ratio(m15Err, m15) ELSE p2
    IN  [m1ErrPercent |-> p3, m5ErrPercent |-> 0, m15ErrPercent |-> 0]

\* rate1.Tick() ... errRate15.Tick(): the aggregator after the six ticks.
TickStat(h) ==
    [h EXCEPT !.rate1 = EWMATick(@, Alpha1),
              !.rate5 = EWMATick(@, Alpha5),
              !.rate15 = EWMATick(@, Alpha15),
              !.errRate1 = EWMATick(@, Alpha1),
              !.errRate5 = EWMATick(@, Alpha5),
              !.errRate15 = EWMATick(@, Alpha15)]

\* m1, m5, m15 := Rate(); m1Err, ... := Rate(); the error percentages
\* (h is the aggregator after the ticks).
TickStatus(h, st) ==
    LET pct == ErrPercents(Rate(h.rate1), Rate(h.rate5), Rate(h.rate15),
                           Rate(h.errRate1), Rate(h.errRate5), Rate(h.errRate15))
    IN  [st EXCEPT !.M1 = Rate(h.rate1), !.M5 = Rate(h.rate5), !.M15 = Rate(h.rate15),
                   !.M1Err = Rate(h.errRate1), !.M5Err = Rate(h.errRate5),
                   !.M15Err = Rate(h.errRate15),
                   !.M1ErrPercent = pct.m1ErrPercent,
                   !.M5ErrPercent = pct.m5ErrPercent,
                   !.M15ErrPercent = pct.m15ErrPercent]

\* Plausible slip: P50 and P75 take each other's element of percentiles.
PercentilesStatusMut(h, st) ==
    LET percentiles == SamplerPercentiles(h.durationSampler)
    IN  [st EXCEPT !.P = [i \in 1..7 |-> IF i = 2 THEN percentiles[3]
                                         ELSE IF i = 3 THEN percentiles[2]
                                         ELSE percentiles[i]]]

\* percentiles := hs.durationSampler.Percentiles()
PercentilesStatus(h, st) == [st EXCEPT !.P = SamplerPercentiles(h.durationSampler)]

\* Plausible slip: the window reset also restarts min and max.
ResetSamplerMut(h) ==
    [h EXCEPT !.durationSampler = SamplerReset(@), !.min = MaxUint64, !.max = 0]

\* Plausible slip: the sampler is read but not reset.
ResetSamplerNoop(h) == h

\* hs.durationSampler.Reset()
ResetSampler(h) == [h EXCEPT !.durationSampler = SamplerReset(@)]

\* codes := hs.cc.Codes()
CodesStatus(h, st) == [st EXCEPT !.Codes = CounterCodes(h.cc)]

\* Plausible slip: Status reads the codes and leaves the counter as it is.
ResetCodesMut(h) == h

\* hs.cc.Reset()
ResetCodes(h) == [h EXCEPT !.cc = CounterReset(@)]

\* Plausible slip: Min is read from hs.min without the count > 0 guard.
BuildStatusMut(h, st) ==
    LET mean == IF h.count > 0 THEN h.total \div h.count ELSE 0
    IN  [st EXCEPT !.Count = h.count, !.ErrCount = h.errCount,
                   !.Min = h.min, !.Mean = mean, !.Max = h.max,
                   !.ReqSize = h.reqSize, !.RespSize = h.respSize]

\* mean, minN := 0, 0; if hs.count > 0 { mean = hs.total / hs.count; minN = hs.min }
\* status := &Status{Count: hs.count, ..., Min: minN, Mean: mean, Max: hs.max, ...}
BuildStatus(h, st) ==
    LET mean == IF h.count > 0 THEN h.total \div h.count ELSE 0
        minN == IF h.count > 0 THEN h.min ELSE 0
    IN  [st EXCEPT !.Count = h.count, !.ErrCount = h.errCount,
                   !.Min = minN, !.Mean = mean, !.Max = h.max,
                   !.ReqSize = h.reqSize, !.RespSize = h.respSize]

\* Status, lines 319-337.
StatusTick(t) ==
    /\ pc[t] = "tick"
    /\ stats' = [stats EXCEPT ![cur[t]] = TickStat(@)]
    /\ status' = [status EXCEPT ![t] = TickStatus(TickStat(hs(t)), @)]
    /\ pc' = [pc EXCEPT ![t] = "percentiles"]
    /\ UNCHANGED <<obs, m, cur, local, calls>>
    /\ UNCHANGED hubVars

\* Status, lines 339-340.
StatusPercentiles(t) ==
    /\ pc[t] = "percentiles"
    /\ status' = [status EXCEPT ![t] = PercentilesStatus(hs(t), @)]
    /\ stats' = [stats EXCEPT ![cur[t]] = ResetSampler(@)]
    /\ pc' = [pc EXCEPT ![t] = "codes"]
    /\ UNCHANGED <<obs, m, cur, local, calls>>
    /\ UNCHANGED hubVars

\* Status, lines 342-343.
StatusCodes(t) ==
    /\ pc[t] = "codes"
    /\ status' = [status EXCEPT ![t] = CodesStatus(hs(t), @)]
    /\ stats' = [stats EXCEPT ![cur[t]] = ResetCodes(@)]
    /\ pc' = [pc EXCEPT ![t] = "build"]
    /\ UNCHANGED <<obs, m, cur, local, calls>>
    /\ UNCHANGED hubVars

\* Status, lines 345-383.
StatusBuild(t) ==
    /\ pc[t] = "build"
    /\ status' = [status EXCEPT ![t] = BuildStatus(hs(t), @)]
    /\ pc' = [pc EXCEPT ![t] = "unlock"]
    /\ UNCHANGED <<stats, obs, m, cur, local, calls>>
    /\ UNCHANGED hubVars

\* Plausible slip: Status returns without releasing the write lock.
StatusUnlockMut(t) ==
    /\ pc[t] = "unlock"
    /\ obs' = [obs EXCEPT ![cur[t]] = Returned(@, status[t])]
    /\ pc' = [pc EXCEPT ![t] = "idle"]
    /\ UNCHANGED <<stats, m, cur, local, status, calls>>
    /\ UNCHANGED hubVars

\* defer hs.mutex.Unlock(); return status
StatusUnlock(t) ==
    /\ pc[t] = "unlock"
    /\ stats' = [stats EXCEPT ![cur[t]].writer = NoThread]
    /\ obs' = [obs EXCEPT ![cur[t]] = Returned(@, status[t])]
    /\ pc' = [pc EXCEPT ![t] = "idle"]
    /\ UNCHANGED <<m, cur, local, status, calls>>
    /\ UNCHANGED hubVars

\* ------------------------------------------- one aggregator, many goroutines
\* A goroutine calls hs.Stat(r) on the aggregator.
CallStat(t) ==
    /\ FirstIdle(t)
    /\ calls > 0
    /\ \E r \in RequestMetrics : m' = [m EXCEPT ![t] = r]
    /\ pc' = [pc EXCEPT ![t] = "rlock"]
    /\ status' = [status EXCEPT ![t] = NoStatus]
    /\ calls' = calls - 1
    /\ UNCHANGED <<stats, obs, cur, local>>
    /\ UNCHANGED hubVars

\* A goroutine calls hs.Status() on the aggregator.
CallStatus(t) ==
    /\ FirstIdle(t)
    /\ calls > 0
    /\ pc' = [pc EXCEPT ![t] = "lock"]
    /\ status' = [status EXCEPT ![t] = NoStatus]
    /\ calls' = calls - 1
    /\ UNCHANGED <<stats, obs, m, cur, local>>
    /\ UNCHANGED hubVars

Stat(t) ==
    \/ StatRLock(t) \/ StatCount(t) \/ StatErr(t) \/ StatTotal(t)
    \/ StatMinLoad(t) \/ StatMinCAS(t) \/ StatMaxLoad(t) \/ StatMaxCAS(t)
    \/ StatSample(t) \/ StatSize(t) \/ StatCode(t) \/ StatRUnlock(t)

Status(t) ==
    \/ StatusLock(t) \/ StatusAcquire(t) \/ StatusTick(t) \/ StatusPercentiles(t)
    \/ StatusCodes(t) \/ StatusBuild(t) \/ StatusUnlock(t)

\* A new HTTPStatusCodeCounter outside any aggregator, and nobody calling it.
\* i is the index of the range loop of Codes or Reset, codes the map Codes
\* builds; counted, reported and windows are history: the Count calls per
\* slot, the counts the Codes calls returned per slot, the Reset calls done.
NoDirect ==
    [ counter |-> NewCounter, pc |-> "idle", i |-> 0, codes |-> <<>>,
      counted |-> [c \in Slots |-> 0], reported |-> [c \in Slots |-> 0],
      windows |-> 0 ]

\* No metric registered, no vector created, no call made.
NoMetrics ==
    /\ metricsRegistrations = [h \in Hubs |-> <<>>]
    /\ registry = [h \in Hubs |-> {}]
    /\ collectors = [gaugeMap |-> <<>>, counterMap |-> <<>>]
    /\ ret = "none"
    /\ callerLabels = NilLabels

\* The hub's part of the state where no hub is running.
NoHub ==
    /\ httpStats = <<>>
    /\ httpMetrics = <<>>
    /\ key = [t \in Procs |-> NoKey]
    /\ mapWriting = {}
    /\ crashed = FALSE
    /\ iter = [started |-> {}, visited |-> {}]
    /\ ticks = 0

Init ==
    /\ stats = <<NewHTTPStat>>
    /\ obs = <<NewObs(NoKey)>>
    /\ pc = [t \in Procs |-> "idle"]
    /\ m = [t \in Procs |-> NilMetric]
    /\ cur = [t \in Procs |-> 1]
    /\ local = [t \in Procs |-> NoLocal]
    /\ status = [t \in Procs |-> NoStatus]
    /\ calls = MaxCalls
    /\ NoHub
    /\ direct = NoDirect
    /\ NoMetrics

Next ==
    \E t \in Threads : CallStat(t) \/ CallStatus(t) \/ Stat(t) \/ Status(t)

Spec == Init /\ [][Next]_vars

\* The Go scheduler runs every runnable goroutine: a goroutine that can take a
\* step of its Stat or of its Status does not wait forever. A goroutine blocked
\* in RLock or Lock is not runnable and is not forced to move.
InitFair ==
    /\ stats = <<NewHTTPStat>>
    /\ obs = <<NewObs(NoKey)>>
    /\ pc = [t \in Procs |-> "idle"]
    /\ m = [t \in Procs |-> NilMetric]
    /\ cur = [t \in Procs |-> 1]
    /\ local = [t \in Procs |-> NoLocal]
    /\ status = [t \in Procs |-> NoStatus]
    /\ calls = FairCalls
    /\ NoHub
    /\ direct = NoDirect
    /\ NoMetrics

SpecFair ==
    /\ InitFair
    /\ [][Next]_vars
    /\ \A t \in Threads : WF_vars(Stat(t)) /\ WF_vars(Status(t))

\* ------------------------------------------------------------- MetricsHub
\* In the hub, a call of Stat and a call of Status are each taken as one step:
\* Stat holds the read lock and Status the write lock of the aggregator, so a
\* Status never sees a Stat half done, and the atomic updates of concurrent
\* Stat calls commute.

\* hs.Stat(r) from RLock to RUnlock: the aggregator after it.
StatBody(h, r) ==
    LET duration == Milliseconds(r.Duration)
    IN  [h EXCEPT !.count = @ + 1,
                  !.rate1 = EWMAUpdate(@, 1),
                  !.rate5 = EWMAUpdate(@, 1),
                  !.rate15 = EWMAUpdate(@, 1),
                  !.errCount = IF isErr(r) THEN @ + 1 ELSE @,
                  !.errRate1 = IF isErr(r) THEN EWMAUpdate(@, 1) ELSE @,
                  !.errRate5 = IF isErr(r) THEN EWMAUpdate(@, 1) ELSE @,
                  !.errRate15 = IF isErr(r) THEN EWMAUpdate(@, 1) ELSE @,
                  !.total = @ + duration,
                  !.min = IF duration >= @ THEN @ ELSE duration,
                  !.max = IF duration <= @ THEN @ ELSE duration,
                  !.durationSampler = SamplerUpdate(@, r.Duration),
                  !.reqSize = @ + r.ReqSize,
                  !.respSize = @ + r.RespSize,
                  !.cc = CounterCount(@, r.StatusCode)]

\* hs.Status() from Lock to Unlock: the aggregator after it, and its result.
StatusBody(h) == ResetCodes(ResetSampler(TickStat(h)))
StatusResult(h) ==
    BuildStatus(h, CodesStatus(h, PercentilesStatus(h, TickStatus(TickStat(h), NoStatus))))

\* The exporter's series of one (method, path): the counters and histogram
\* sums fed per request (the ...Percentage summaries observe the same values
\* as the histograms) and the gauges set per tick.
NewSeries ==
    [ TotalRequests |-> 0, TotalResponses |-> 0, TotalErrorRequests |-> 0,
      RequestsDuration |-> 0, RequestSizeBytes |-> 0, ResponseSizeBytes |-> 0,
      gauges |-> NoStatus ]

\* vec.With(labels): the series of the labels, created on first use.
With(k) == IF k \in DOMAIN httpMetrics THEN httpMetrics[k] ELSE NewSeries

SetSeries(k, v) ==
    [x \in DOMAIN httpMetrics \cup {k} |-> IF x = k THEN v ELSE httpMetrics[x]]

\* The requestMetric arguments of UpdateHTTPRequestMetrics.
HubMetrics == { r \in RequestMetrics : r.StatusCode < CounterLen } \cup {NilMetric}

\* Plausible slip: the key is built from the path alone.
httpStatsKeyMut(method, path) == <<"", path>>

\* key := httpStatsKey{Method: method, Path: path}
httpStatsKey(method, path) == <<method, path>>

\* if stat == nil / hub.httpMetrics == nil (never so); if requestMetric == nil { return }
AfterMap(t) == IF m[t] = NilMetric THEN "idle" ELSE "stat"

\* hub.UpdateHTTPRequestMetrics(requestMetric, method, path) is called:
\* stat, exists := hub.httpStats[key]
UpdLookup(t) ==
    /\ ~crashed
    /\ FirstIdle(t)
    /\ calls > 0
    /\ calls' = calls - 1
    /\ \E k \in Keys, r \in HubMetrics :
          LET theKey == httpStatsKey(k[1], k[2])
              exists == theKey \in DOMAIN httpStats
          IN  /\ m' = [m EXCEPT ![t] = r]
              /\ IF exists
                 THEN /\ pc' = [pc EXCEPT ![t] = IF r = NilMetric THEN "idle" ELSE "stat"]
                      /\ cur' = [cur EXCEPT ![t] = IF r = NilMetric THEN 0 ELSE httpStats[theKey]]
                      /\ key' = [key EXCEPT ![t] = IF r = NilMetric THEN NoKey ELSE k]
                 ELSE /\ pc' = [pc EXCEPT ![t] = "insert"]
                      /\ key' = [key EXCEPT ![t] = k]
                      /\ cur' = cur
    /\ UNCHANGED <<stats, obs, local, status>>
    /\ UNCHANGED <<httpStats, httpMetrics, mapWriting, crashed, iter, ticks, direct, metricsRegistrations, collectors, ret, registry, callerLabels>>

\* if !exists { stat = NewHTTPStat(); hub.httpStats[key] = stat }: the
\* assignment begins and the entry is stored.
UpdInsert(t) ==
    /\ ~crashed
    /\ pc[t] = "insert"
    /\ stats' = Append(stats, NewHTTPStat)
    /\ LET theKey == httpStatsKey(key[t][1], key[t][2])
       IN  /\ obs' = Append(obs, NewObs(theKey))
           /\ httpStats' = [k \in DOMAIN httpStats \cup {theKey} |->
                               IF k = theKey THEN Len(stats) + 1 ELSE httpStats[k]]
    /\ cur' = [cur EXCEPT ![t] = Len(stats) + 1]
    /\ mapWriting' = mapWriting \cup {t}
    /\ pc' = [pc EXCEPT ![t] = "inserting"]
    /\ UNCHANGED <<m, local, status, calls, httpMetrics, key, crashed, iter, ticks, direct, metricsRegistrations, collectors, ret, registry, callerLabels>>

\* hub.httpStats[key] = stat: the assignment ends.
UpdInserted(t) ==
    /\ ~crashed
    /\ pc[t] = "inserting"
    /\ mapWriting' = mapWriting \ {t}
    /\ pc' = [pc EXCEPT ![t] = AfterMap(t)]
    /\ cur' = [cur EXCEPT ![t] = IF m[t] = NilMetric THEN 0 ELSE @]
    /\ key' = [key EXCEPT ![t] = IF m[t] = NilMetric THEN NoKey ELSE @]
    /\ UNCHANGED <<stats, obs, m, local, status, calls, httpStats, httpMetrics, crashed, iter, ticks, direct, metricsRegistrations, collectors, ret, registry, callerLabels>>

\* stat.Stat(requestMetric)
UpdStat(t) ==
    /\ ~crashed
    /\ pc[t] = "stat"
    /\ hs(t).writer = NoThread
    /\ stats' = [stats EXCEPT ![cur[t]] = StatBody(@, m[t])]
    /\ obs' = [obs EXCEPT ![cur[t]] = Observed(@, m[t])]
    /\ pc' = [pc EXCEPT ![t] = "export"]
    /\ UNCHANGED <<m, cur, local, status, calls>>
    /\ UNCHANGED hubVars

\* hub.httpMetrics.exportPrometheusMetricsForRequestMetric(requestMetric, method, path)
UpdExport(t) ==
    /\ ~crashed
    /\ pc[t] = "export"
    /\ httpMetrics' = SetSeries(key[t],
          [With(key[t]) EXCEPT
              !.TotalRequests = @ + 1,
              !.TotalResponses = @ + 1,
              !.TotalErrorRequests = @ + (IF m[t].StatusCode >= 400 THEN 1 ELSE 0),
              !.RequestsDuration = @ + Milliseconds(m[t].Duration),
              !.RequestSizeBytes = @ + m[t].ReqSize,
              !.ResponseSizeBytes = @ + m[t].RespSize])
    /\ pc' = [pc EXCEPT ![t] = "idle"]
    /\ cur' = [cur EXCEPT ![t] = 0]
    /\ key' = [key EXCEPT ![t] = NoKey]
    /\ m' = [m EXCEPT ![t] = NilMetric]
    /\ UNCHANGED <<stats, obs, local, status, calls, httpStats, mapWriting, crashed, iter, ticks, direct, metricsRegistrations, collectors, ret, registry, callerLabels>>

\* hub.httpStats is a plain Go map accessed without a lock. An access that
\* meets an assignment in progress is a data race: the runtime may end the
\* process ("fatal error: concurrent map read and map write", "concurrent map
\* writes", "concurrent map iteration and map write"), or the access goes on.
MapFault(t) ==
    /\ ~crashed
    /\ \/ t \in Threads /\ FirstIdle(t) /\ calls > 0
       \/ t \in Threads /\ pc[t] = "insert"
       \/ t = Ticker /\ pc[t] = "range"
    /\ mapWriting \ {t} # {}
    /\ crashed' = TRUE
    /\ UNCHANGED aggVars
    /\ UNCHANGED <<httpStats, httpMetrics, key, mapWriting, iter, ticks, direct, metricsRegistrations, collectors, ret, registry, callerLabels>>

\* case <-ticker.C: the range over hub.httpStats begins.
TickStart ==
    /\ ~crashed
    /\ pc[Ticker] = "idle"
    /\ ticks < MaxTicks
    /\ ticks' = ticks + 1
    /\ iter' = [started |-> DOMAIN httpStats, visited |-> {}]
    /\ pc' = [pc EXCEPT ![Ticker] = "range"]
    /\ UNCHANGED <<stats, obs, m, cur, local, status, calls>>
    /\ UNCHANGED <<httpStats, httpMetrics, key, mapWriting, crashed, direct, metricsRegistrations, collectors, ret, registry, callerLabels>>

\* for key, stats := range hub.httpStats: the next entry.
RangeNext ==
    /\ ~crashed
    /\ pc[Ticker] = "range"
    /\ \E k \in DOMAIN httpStats \ iter.visited :
          /\ key' = [key EXCEPT ![Ticker] = k]
          /\ cur' = [cur EXCEPT ![Ticker] = httpStats[k]]
          /\ iter' = [iter EXCEPT !.visited = @ \cup {k}]
    /\ pc' = [pc EXCEPT ![Ticker] = "status"]
    /\ UNCHANGED <<stats, obs, m, local, status, calls>>
    /\ UNCHANGED <<httpStats, httpMetrics, mapWriting, crashed, ticks, direct, metricsRegistrations, collectors, ret, registry, callerLabels>>

\* status := stats.Status()
TickStatusCall ==
    /\ ~crashed
    /\ pc[Ticker] = "status"
    /\ hs(Ticker).writer = NoThread /\ hs(Ticker).readers = {}
    /\ stats' = [stats EXCEPT ![cur[Ticker]] = StatusBody(@)]
    /\ status' = [status EXCEPT ![Ticker] = StatusResult(hs(Ticker))]
    /\ obs' = [obs EXCEPT ![cur[Ticker]] = Returned(@, StatusResult(hs(Ticker)))]
    /\ pc' = [pc EXCEPT ![Ticker] = "tickexport"]
    /\ UNCHANGED <<m, cur, local, calls>>
    /\ UNCHANGED hubVars

\* hub.httpMetrics.exportPrometheusMetricsForTicker(status, key.Method, key.Path)
TickExport ==
    /\ ~crashed
    /\ pc[Ticker] = "tickexport"
    /\ httpMetrics' = SetSeries(key[Ticker],
          [With(key[Ticker]) EXCEPT !.gauges = status[Ticker]])
    /\ status' = [status EXCEPT ![Ticker] = NoStatus]
    /\ pc' = [pc EXCEPT ![Ticker] = "range"]
    /\ UNCHANGED <<stats, obs, m, cur, local, calls>>
    /\ UNCHANGED <<httpStats, key, mapWriting, crashed, iter, ticks, direct, metricsRegistrations, collectors, ret, registry, callerLabels>>

\* The range ends: every entry present at its start was produced (an entry
\* inserted during the range may be produced or skipped).
RangeEnd ==
    /\ ~crashed
    /\ pc[Ticker] = "range"
    /\ iter.started \subseteq iter.visited
    /\ iter' = [started |-> {}, visited |-> {}]
    /\ key' = [key EXCEPT ![Ticker] = NoKey]
    /\ cur' = [cur EXCEPT ![Ticker] = 0]
    /\ pc' = [pc EXCEPT ![Ticker] = "idle"]
    /\ UNCHANGED <<stats, obs, m, local, status, calls>>
    /\ UNCHANGED <<httpStats, httpMetrics, mapWriting, crashed, ticks, direct, metricsRegistrations, collectors, ret, registry, callerLabels>>

\* UpdateHTTPRequestMetrics, step by step.
UpdateHTTPRequestMetrics(t) ==
    \/ UpdLookup(t) \/ UpdInsert(t) \/ UpdInserted(t) \/ UpdStat(t) \/ UpdExport(t)

\* MetricsHub.run, step by step.
run ==
    \/ TickStart \/ RangeNext \/ TickStatusCall \/ TickExport \/ RangeEnd

\* NewMetricsHub(config): empty maps.
NewMetricsHub ==
    /\ stats = <<>>
    /\ obs = <<>>
    /\ pc = [t \in Procs |-> "idle"]
    /\ m = [t \in Procs |-> NilMetric]
    /\ cur = [t \in Procs |-> 0]
    /\ local = [t \in Procs |-> NoLocal]
    /\ status = [t \in Procs |-> NoStatus]
    /\ NoHub
    /\ direct = NoDirect
    /\ NoMetrics

\* The request goroutines of a hub (the tick loop finds no tick to serve).
InitHub == NewMetricsHub /\ calls = HubCalls

NextHub ==
    \E t \in Threads : UpdateHTTPRequestMetrics(t) \/ MapFault(t)

SpecHub == InitHub /\ [][NextHub]_vars

\* The request goroutines and the tick loop (go hub.run()).
InitRun == NewMetricsHub /\ calls = RunCalls

NextRun ==
    \/ \E t \in Threads : UpdateHTTPRequestMetrics(t) \/ MapFault(t)
    \/ run
    \/ MapFault(Ticker)

SpecRun == InitRun /\ [][NextRun]_vars

\* ------------------------------------------------- one aggregator, a scenario
\* The goroutines issue the Stat calls of the scenario in its order (a call may
\* begin before the one before it has returned) and, when they have all
\* returned, one Status.
CallScenario(t) ==
    /\ FirstIdle(t)
    /\ calls > 0
    /\ calls' = calls - 1
    /\ status' = [status EXCEPT ![t] = NoStatus]
    /\ IF calls > 1
       THEN /\ m' = [m EXCEPT ![t] = Scenario[Len(Scenario) + 2 - calls]]
            /\ pc' = [pc EXCEPT ![t] = "rlock"]
       ELSE /\ \A u \in Threads : pc[u] = "idle"
            /\ pc' = [pc EXCEPT ![t] = "lock"]
            /\ m' = m
    /\ UNCHANGED <<stats, obs, cur, local>>
    /\ UNCHANGED hubVars

InitScenario ==
    /\ stats = <<NewHTTPStat>>
    /\ obs = <<NewObs(NoKey)>>
    /\ pc = [t \in Procs |-> "idle"]
    /\ m = [t \in Procs |-> NilMetric]
    /\ cur = [t \in Procs |-> 1]
    /\ local = [t \in Procs |-> NoLocal]
    /\ status = [t \in Procs |-> NoStatus]
    /\ calls = Len(Scenario) + 1
    /\ NoHub
    /\ direct = NoDirect
    /\ NoMetrics

NextScenario ==
    \E t \in Threads : CallScenario(t) \/ Stat(t) \/ Status(t)

SpecScenario == InitScenario /\ [][NextScenario]_vars

\* ------------------------------------------- HTTPStatusCodeCounter on its own
\* The arguments of Count: in range, below it and above it.
CountCodes == Slots \cup {-1, CounterLen}

\* The RequestMetric values handed to Stat here: also a negative status code.
CounterMetrics ==
    RequestMetrics \cup { [StatusCode |-> -1, Duration |-> 2500, ReqSize |-> 3, RespSize |-> 1] }

\* for i := range cc.counter: the first slot the calls can touch from index i
\* on (the slots before it are zero and stay so); CounterLen when the range ends.
NextSlot(i) ==
    IF \E c \in Slots : c >= i
    THEN CHOOSE c \in Slots : c >= i /\ \A d \in Slots : d >= i => c <= d
    ELSE CounterLen

OnlyDirect ==
    UNCHANGED <<stats, obs, pc, m, cur, local, status,
                httpStats, httpMetrics, key, mapWriting, crashed, iter, ticks,
                metricsRegistrations, collectors, ret, registry, callerLabels>>

\* Plausible slip: the slot is set instead of incremented.
CountMut(code) ==
    /\ calls > 0
    /\ calls' = calls - 1
    /\ direct' = [direct EXCEPT
          !.counter = IF code \in DOMAIN @ THEN [@ EXCEPT ![code] = 1] ELSE @,
          !.counted = IF code \in DOMAIN @ THEN [@ EXCEPT ![code] = @ + 1] ELSE @]
    /\ OnlyDirect

\* cc.Count(code), by any goroutine: the range check and the atomic add.
Count(code) ==
    /\ calls > 0
    /\ calls' = calls - 1
    /\ direct' = [direct EXCEPT
          !.counter = CounterCount(@, code),
          !.counted = IF code \in DOMAIN @ THEN [@ EXCEPT ![code] = @ + 1] ELSE @]
    /\ OnlyDirect

\* The tick thread calls cc.Codes(): codes := make(map[int]uint64)
CodesCall ==
    /\ direct.pc = "idle"
    /\ direct.windows < Windows
    /\ direct' = [direct EXCEPT !.pc = "codes", !.i = NextSlot(0), !.codes = <<>>]
    /\ UNCHANGED calls
    /\ OnlyDirect

\* for i, count := range cc.counter { if count > 0 { codes[i] = count } }
CodesRange ==
    /\ direct.pc = "codes"
    /\ direct.i < CounterLen
    /\ LET i == direct.i
           count == direct.counter[i]
       IN  direct' = [direct EXCEPT
              !.codes = IF count > 0
                        THEN [c \in DOMAIN @ \cup {i} |-> IF c = i THEN count ELSE @[c]]
                        ELSE @,
              !.i = NextSlot(i + 1)]
    /\ UNCHANGED calls
    /\ OnlyDirect

\* return codes
CodesReturn ==
    /\ direct.pc = "codes"
    /\ direct.i = CounterLen
    /\ direct' = [direct EXCEPT
          !.pc = "coded",
          !.reported = [c \in Slots |->
                           @[c] + (IF c \in DOMAIN direct.codes THEN direct.codes[c] ELSE 0)]]
    /\ UNCHANGED calls
    /\ OnlyDirect

\* The tick thread calls cc.Reset() next.
ResetCall ==
    /\ direct.pc = "coded"
    /\ direct' = [direct EXCEPT !.pc = "reset", !.i = NextSlot(0)]
    /\ UNCHANGED calls
    /\ OnlyDirect

\* for i := 0; i < len(cc.counter); i++ { cc.counter[i] = 0 }
ResetRange ==
    /\ direct.pc = "reset"
    /\ direct.i < CounterLen
    /\ direct' = [direct EXCEPT !.counter[direct.i] = 0, !.i = NextSlot(direct.i + 1)]
    /\ UNCHANGED calls
    /\ OnlyDirect

\* Reset returns.
ResetReturn ==
    /\ direct.pc = "reset"
    /\ direct.i = CounterLen
    /\ direct' = [direct EXCEPT !.pc = "idle", !.windows = @ + 1]
    /\ UNCHANGED calls
    /\ OnlyDirect

\* Plausible slip: Stat validates the status code first and returns early.
StatCallMut(r) ==
    /\ calls > 0
    /\ calls' = calls - 1
    /\ stats' = [stats EXCEPT ![1] =
                    IF r.StatusCode < 0 \/ r.StatusCode >= CounterLen
                    THEN @ ELSE StatBody(@, r)]
    /\ obs' = [obs EXCEPT ![1] = Observed(@, r)]
    /\ UNCHANGED <<pc, m, cur, local, status>>
    /\ UNCHANGED hubVars

\* hs.Stat(r) on an aggregator of its own, taken as one step.
StatCall(r) ==
    /\ calls > 0
    /\ calls' = calls - 1
    /\ stats' = [stats EXCEPT ![1] = StatBody(@, r)]
    /\ obs' = [obs EXCEPT ![1] = Observed(@, r)]
    /\ UNCHANGED <<pc, m, cur, local, status>>
    /\ UNCHANGED hubVars

Codes == CodesCall \/ CodesRange \/ CodesReturn

Reset == ResetCall \/ ResetRange \/ ResetReturn

InitCounter ==
    /\ stats = <<NewHTTPStat>>
    /\ obs = <<NewObs(NoKey)>>
    /\ pc = [t \in Procs |-> "idle"]
    /\ m = [t \in Procs |-> NilMetric]
    /\ cur = [t \in Procs |-> 1]
    /\ local = [t \in Procs |-> NoLocal]
    /\ status = [t \in Procs |-> NoStatus]
    /\ calls = CountCalls
    /\ NoHub
    /\ direct = NoDirect
    /\ NoMetrics

NextCounter ==
    \/ \E code \in CountCodes : Count(code)
    \/ Codes
    \/ Reset
    \/ \E r \in CounterMetrics : StatCall(r)

SpecCounter == InitCounter /\ [][NextCounter]_vars

\* --------------------------------------------------------- registered metrics
\* The metric methods of a hub, each call taken as one step. The names and
\* label keys of the calls are valid Prometheus names, the label maps that are
\* not nil carry the label keys of the registration and the values are
\* positive, so that no call panics inside the Prometheus client.
MetricTypeGaugeVec == "GaugeVec"
MetricTypeCounterVec == "CounterVec"
\* The types of the registrations made here; the last is none the hub supports.
MetricTypes == {MetricTypeGaugeVec, MetricTypeCounterVec, "Untyped"}

MergedLabelValue == "MERGED_LABEL"

MetricNames == {"example_gauge", "jobs_total"}

\* hub.getFixedLabels() for MetricsHubConfig{ServiceName: "test"}.
fixedLabels == ("service_name" :> "test") @@ ("type" :> "gpu-runtime")

\* LabelKeys of the registrations made here.
UserLabelKeys == <<"cluster", "node", "spec">>

Labels(cluster, node, spec) ==
    ("cluster" :> cluster) @@ ("node" :> node) @@ ("spec" :> spec)

\* The label maps of the calls.
UserLabels ==
    { Labels("1001", "ds01", "4090"), Labels("1001", "ds02", "4060"),
      Labels("1001", "ds03", "4060"), Labels("1002", "ds04", "4060"),
      Labels("a,b", "ds05", "c"), Labels("a", "ds06", "b,c") }

\* The label maps of the IncMetrics and DecMetrics calls.
StepLabels == { Labels("1001", "ds01", "4090"), Labels("1001", "ds02", "4060") }

\* The values of UpdateMetrics.
UserValues == {7, 8}

\* The mergedLabels of CollectMergedMetrics.
MergedLabelSets == { <<"node">>, <<"node", "cluster">> }

Range(seq) == { seq[i] : i \in DOMAIN seq }

\* The orders in which a range over a map may produce the keys in S.
Orders(S) == { o \in [1..Cardinality(S) -> S] : Range(o) = S }

\* for k, v := range hub.fixedLabels { if _, exists := labels[k]; !exists { labels[k] = v } }
WithFixed(labels) ==
    [k \in DOMAIN labels \cup DOMAIN fixedLabels |->
        IF k \in DOMAIN labels THEN labels[k] ELSE fixedLabels[k]]

\* The package map a registration's collector lives in ("nil": no collector).
MapOf(type) ==
    CASE type = MetricTypeGaugeVec -> "gaugeMap"
      [] type = MetricTypeCounterVec -> "counterMap"
      [] OTHER -> "nil"

\* The series of a registration's collector: label map -> value.
SeriesOf(reg) == collectors[reg.collector][reg.Name].series

\* collectors after the series of reg's collector became ser.
SetSeriesOf(reg, ser) ==
    [collectors EXCEPT ![reg.collector][reg.Name].series = ser]

\* vec.With(labels): the value of the series under labels (a series is
\* created with value 0 on first use).
ValueOf(ser, labels) == IF labels \in DOMAIN ser THEN ser[labels] ELSE 0

\* The series after the one under labels got the value v.
Apply(ser, labels, v) ==
    [l \in DOMAIN ser \cup {labels} |-> IF l = labels THEN v ELSE ser[l]]

\* A call of a metric method: the process has not ended with a panic.
Called ==
    /\ calls > 0
    /\ ret # PanicNilMap
    /\ calls' = calls - 1
    /\ UNCHANGED <<stats, obs, pc, m, cur, local, status,
                   httpStats, httpMetrics, key, mapWriting, crashed, iter, ticks, direct>>

\* RegisterMetric past the check of the name: the fixed label keys are
\* appended (in the order the range over hub.fixedLabels produces them), the
\* registration is stored and the collector is created.
AddRegistration(h, name, type, keys) ==
    \E o \in Orders(DOMAIN fixedLabels \ Range(keys)) :
        LET LabelKeys == keys \o o
            kind == MapOf(type)
            reg == [Name |-> name, Type |-> type, LabelKeys |-> LabelKeys,
                    collector |-> kind]
        IN  /\ metricsRegistrations' =
                  [metricsRegistrations EXCEPT ![h] =
                      [n \in DOMAIN @ \cup {name} |-> IF n = name THEN reg ELSE @[n]]]
            /\ registry' =
                  IF kind = "nil" \/ name \in DOMAIN collectors[kind]
                  THEN registry
                  ELSE [registry EXCEPT ![h] = @ \cup {<<kind, name>>}]
            /\ UNCHANGED callerLabels
            /\ collectors' =
                  IF kind = "nil" \/ name \in DOMAIN collectors[kind]
                  THEN collectors
                  ELSE [collectors EXCEPT ![kind] =
                          [n \in DOMAIN @ \cup {name} |->
                              IF n = name
                              THEN [labels |-> LabelKeys, series |-> <<>>]
                              ELSE @[n]]]
            /\ ret' = IF kind = "nil"
                      THEN "unsupported metric type: " \o type
                      ELSE "nil"

\* Plausible slip: the name is not checked against the registrations.
RegisterMetricMut(h, name, type, keys) ==
    /\ Called
    /\ AddRegistration(h, name, type, keys)

\* hub.RegisterMetric(&MetricRegistration{Name: name, Type: type, LabelKeys: keys})
\* on hub h
RegisterMetric(h, name, type, keys) ==
    /\ Called
    /\ IF name \in DOMAIN metricsRegistrations[h]
       THEN /\ ret' = "metric " \o name \o " already exists"
            /\ UNCHANGED <<metricsRegistrations, collectors, registry, callerLabels>>
       ELSE AddRegistration(h, name, type, keys)

\* The range over hub.fixedLabels writes labels[k] = v for the fixed labels the
\* map lacks; on a nil map the first write panics.
Panics(labels) == labels = NilLabels /\ DOMAIN fixedLabels # {}

\* UpdateMetrics past the lookup of the name: the fixed labels are added to the
\* caller's map and the collector of the registration is updated.
UpdateCollector(h, name, value, labels) ==
    LET reg == metricsRegistrations[h][name]
        ser == SeriesOf(reg)
        with == WithFixed(labels)
    IN  IF Panics(labels)
        THEN /\ ret' = PanicNilMap
             /\ callerLabels' = labels
             /\ UNCHANGED collectors
        ELSE /\ callerLabels' = with
             /\ CASE reg.collector = "gaugeMap" ->
                       /\ collectors' = SetSeriesOf(reg, Apply(ser, with, value))
                       /\ ret' = "nil"
                  [] reg.collector = "counterMap" ->
                       /\ collectors' = SetSeriesOf(reg,
                             Apply(ser, with, ValueOf(ser, with) + (IF value > 1 THEN value ELSE 1)))
                       /\ ret' = "nil"
                  [] OTHER ->
                       /\ ret' = "BUG: unsupported metric type: <nil>"
                       /\ UNCHANGED collectors

\* Plausible slip: an unknown name is reported as an error.
UpdateMetricsMut(h, name, value, labels) ==
    /\ Called
    /\ UNCHANGED <<metricsRegistrations, registry>>
    /\ IF name \notin DOMAIN metricsRegistrations[h]
       THEN ret' = "metric not found" /\ callerLabels' = labels /\ UNCHANGED collectors
       ELSE UpdateCollector(h, name, value, labels)

\* hub.UpdateMetrics(name, value, labels) on hub h
UpdateMetrics(h, name, value, labels) ==
    /\ Called
    /\ UNCHANGED <<metricsRegistrations, registry>>
    /\ IF name \notin DOMAIN metricsRegistrations[h]
       THEN ret' = "nil" /\ callerLabels' = labels /\ UNCHANGED collectors
       ELSE UpdateCollector(h, name, value, labels)

\* hub.IncMetrics(name, labels) on hub h
IncMetrics(h, name, labels) ==
    /\ Called
    /\ UNCHANGED <<metricsRegistrations, registry>>
    /\ IF name \notin DOMAIN metricsRegistrations[h]
       THEN ret' = "nil" /\ callerLabels' = labels /\ UNCHANGED collectors
       ELSE LET reg == metricsRegistrations[h][name]
                with == WithFixed(labels)
            IN  IF Panics(labels)
                THEN /\ ret' = PanicNilMap
                     /\ callerLabels' = labels
                     /\ UNCHANGED collectors
                ELSE /\ callerLabels' = with
                     /\ IF reg.collector \in {"gaugeMap", "counterMap"}
                        THEN /\ collectors' = SetSeriesOf(reg,
                                   Apply(SeriesOf(reg), with, ValueOf(SeriesOf(reg), with) + 1))
                             /\ ret' = "nil"
                        ELSE /\ ret' = "BUG: unsupported metric type for inc: <nil>"
                             /\ UNCHANGED collectors

\* hub.DecMetrics(name, labels) on hub h
DecMetrics(h, name, labels) ==
    /\ Called
    /\ UNCHANGED <<metricsRegistrations, registry>>
    /\ IF name \notin DOMAIN metricsRegistrations[h]
       THEN ret' = "nil" /\ callerLabels' = labels /\ UNCHANGED collectors
       ELSE LET reg == metricsRegistrations[h][name]
                with == WithFixed(labels)
            IN  IF Panics(labels)
                THEN /\ ret' = PanicNilMap
                     /\ callerLabels' = labels
                     /\ UNCHANGED collectors
                ELSE /\ callerLabels' = with
                     /\ IF reg.collector = "gaugeMap"
                        THEN /\ collectors' = SetSeriesOf(reg,
                                   Apply(SeriesOf(reg), with, ValueOf(SeriesOf(reg), with) - 1))
                             /\ ret' = "nil"
                        ELSE /\ ret' = "BUG: unsupported metric type for dec"
                             /\ UNCHANGED collectors

\* strings.Join(parts, ",")
RECURSIVE Join(_)
Join(parts) ==
    IF Len(parts) = 0 THEN ""
    ELSE IF Len(parts) = 1 THEN parts[1]
    ELSE parts[1] \o "," \o Join(Tail(parts))

\* groupMetrics: the label keys of the registration that are not merged.
CompositeLabelKeys(reg, mergedLabels) ==
    SelectSeq(reg.LabelKeys, LAMBDA k : k \notin Range(mergedLabels))

\* groupMetrics: compositeKey of the series with the label map l.
CompositeKey(l, compositeLabelKeys) ==
    Join([i \in 1..Len(compositeLabelKeys) |-> l[compositeLabelKeys[i]]])

\* groupMetrics: the series that take part (no label holds MergedLabelValue).
Collected(ser) == { l \in DOMAIN ser : \A k \in DOMAIN l : l[k] # MergedLabelValue }

RECURSIVE SumOf(_, _)
SumOf(ser, S) ==
    IF S = {} THEN 0
    ELSE LET l == CHOOSE x \in S : TRUE IN ser[l] + SumOf(ser, S \ {l})

\* groupMetrics(reg, mergedLabels): the sets of merged metrics it can return.
\* groupedLabels[compositeKey] is taken from the series of that compositeKey
\* that Collect sends first, and Collect sends the series in no fixed order.
groupMetrics(reg, mergedLabels) ==
    LET ser == SeriesOf(reg)
        cks == CompositeLabelKeys(reg, mergedLabels)
        members(ck) == { l \in Collected(ser) : CompositeKey(l, cks) = ck }
        compositeKeys == { CompositeKey(l, cks) : l \in Collected(ser) }
        mergedMetric(first) ==
            [ Labels |-> [k \in Range(cks) \cup Range(mergedLabels) |->
                            IF k \in Range(mergedLabels) THEN MergedLabelValue ELSE first[k]],
              value |-> SumOf(ser, members(CompositeKey(first, cks))) ]
    IN  { { mergedMetric(first[ck]) : ck \in compositeKeys } :
            first \in { f \in [compositeKeys -> Collected(ser)] :
                          \A ck \in compositeKeys : f[ck] \in members(ck) } }

\* mergeMetrics: the series after m.With(mergedMetric.Labels).Set(value) (a
\* gauge) or .Add(value) (a counter) for every merged metric.
mergeMetrics(reg, mergedMetrics) ==
    LET ser == SeriesOf(reg)
        of(l) == CHOOSE mm \in mergedMetrics : mm.Labels = l
    IN  [l \in DOMAIN ser \cup { mm.Labels : mm \in mergedMetrics } |->
            IF \E mm \in mergedMetrics : mm.Labels = l
            THEN IF reg.collector = "gaugeMap" THEN of(l).value
                 ELSE (IF l \in DOMAIN ser THEN ser[l] ELSE 0) + of(l).value
            ELSE ser[l]]

\* hub.CollectMergedMetrics(name, mergedLabels) on hub h
CollectMergedMetrics(h, name, mergedLabels) ==
    /\ Called
    /\ UNCHANGED <<metricsRegistrations, registry, callerLabels>>
    /\ IF name \notin DOMAIN metricsRegistrations[h]
       THEN ret' = "metric not found" /\ UNCHANGED collectors
       ELSE LET reg == metricsRegistrations[h][name]
            IN  IF reg.collector = "nil"
                THEN ret' = "unsupported metric type" /\ UNCHANGED collectors
                ELSE /\ \E mergedMetrics \in groupMetrics(reg, mergedLabels) :
                          collectors' = SetSeriesOf(reg, mergeMetrics(reg, mergedMetrics))
                     /\ ret' = "nil"

\* hub.CurrentMetrics() on hub h: the names of the registrations (in any order).
CurrentMetrics(h) == DOMAIN metricsRegistrations[h]

InitMetrics == NewMetricsHub /\ calls = MetricCalls

\* The calls made on one hub.
NextMetrics ==
    \/ \E name \in MetricNames, type \in MetricTypes :
          RegisterMetric(Hub1, name, type, UserLabelKeys)
    \/ \E name \in MetricNames, value \in UserValues, labels \in UserLabels :
          UpdateMetrics(Hub1, name, value, labels)
    \/ \E name \in MetricNames, labels \in StepLabels : IncMetrics(Hub1, name, labels)
    \/ \E name \in MetricNames, labels \in StepLabels : DecMetrics(Hub1, name, labels)
    \/ \E name \in MetricNames, mergedLabels \in MergedLabelSets :
          CollectMergedMetrics(Hub1, name, mergedLabels)

SpecMetrics == InitMetrics /\ [][NextMetrics]_vars

\* Two hubs in one process: the registrations and updates made on either, with
\* label maps that may be nil.
CallerLabels == StepLabels \cup {NilLabels}

\* promhttp.HandlerFor(hub.registry, ...) of hub h: the series of the collectors
\* registered in its registry.
Exposed(h) == [c \in registry[h] |-> collectors[c[1]][c[2]].series]

InitTwoHubs == NewMetricsHub /\ calls = TwoHubCalls

NextTwoHubs ==
    \/ \E h \in Hubs, name \in MetricNames, type \in MetricTypes :
          RegisterMetric(h, name, type, UserLabelKeys)
    \/ \E h \in Hubs, name \in MetricNames, value \in UserValues, labels \in CallerLabels :
          UpdateMetrics(h, name, value, labels)
    \/ \E h \in Hubs, name \in MetricNames, labels \in CallerLabels :
          IncMetrics(h, name, labels)
    \/ \E h \in Hubs, name \in MetricNames, labels \in CallerLabels :
          DecMetrics(h, name, labels)

SpecTwoHubs == InitTwoHubs /\ [][NextTwoHubs]_vars

\* ------------------------------------------------------------------ claims
\* The positions of a goroutine inside Status.
StatusPcs == {"lock", "acquire", "tick", "percentiles", "codes", "build", "unlock"}

\* A goroutine holds the Status it is about to return (the write lock is still held).
Returning(t) == pc[t] = "unlock"

\* C1: a Status reports Count = the number of completed Stat calls on the
\* aggregator and ErrCount = the number of those with a status code >= 400,
\* whatever the interleaving of the calls.
C1_SnapshotCounts ==
    \A t \in Procs : Returning(t) =>
        /\ status[t].Count = obs[cur[t]].n
        /\ status[t].ErrCount = obs[cur[t]].k

\* Two Stat calls, one of them an error, then a Status.
C1_Witness ==
    \E t \in Procs : Returning(t) /\ status[t].Count = 2 /\ status[t].ErrCount = 1

\* C2: errCount <= count in every state of an aggregator, also between the
\* atomic updates of Stat calls in progress, and in every Status returned.
C2_ErrCountLeCount ==
    /\ \A i \in 1..Len(stats) : stats[i].errCount <= stats[i].count
    /\ \A t \in Procs : status[t].ErrCount <= status[t].Count

\* Two Stat calls with an error code are in progress, one past its errCount
\* update and one before it.
C2_Witness ==
    \E t, u \in Threads :
        /\ t # u
        /\ pc[t] = "err" /\ isErr(m[t])
        /\ pc[u] \in {"total", "minload", "mincas"} /\ isErr(m[u])
        /\ hs(t).errCount = 1 /\ hs(t).count = 2

\* C3: a Status with Count > 0 has Min <= Mean <= Max.
C3_MinMeanMax ==
    \A t \in Procs : status[t].Count > 0 =>
        /\ status[t].Min <= status[t].Mean
        /\ status[t].Mean <= status[t].Max

\* A Status over two different durations: Min < Mean < Max.
C3_Witness ==
    \E t \in Procs :
        /\ Returning(t)
        /\ status[t].Count = 2
        /\ status[t].Min < status[t].Mean
        /\ status[t].Mean < status[t].Max

\* The cumulative fields of an aggregator.
Cumulative(h) == <<h.count, h.errCount, h.total, h.min, h.max, h.reqSize, h.respSize>>

C5_EmptyWindow ==
    \A t \in Procs : (Returning(t) /\ obs[cur[t]].window = 0) =>
        /\ \A i \in 1..7 : status[t].P[i] = 0
        /\ DOMAIN status[t].Codes = {}

\* The second of two Status calls in a row, after an observation.
C5_Witness ==
    \E t \in Procs :
        /\ Returning(t)
        /\ obs[cur[t]].window = 0
        /\ status[t].Count = 1 /\ status[t].Max > 0

\* The error percentage of one time constant.
ErrPercent(err, tot) == IF tot > 0 THEN Ratio(err, tot) ELSE 0

\* C6: in every Status each of the three error percentages is the ratio of its
\* own error rate to its own total rate, 0 when the total rate is 0.
C6_ErrPercents ==
    \A t \in Procs : Returning(t) =>
        /\ status[t].M1ErrPercent = ErrPercent(status[t].M1Err, status[t].M1)
        /\ status[t].M5ErrPercent = ErrPercent(status[t].M5Err, status[t].M5)
        /\ status[t].M15ErrPercent = ErrPercent(status[t].M15Err, status[t].M15)

\* C7: a Status of an aggregator whose count is 0 has Mean = 0, Min = 0 and
\* the three error percentages 0.
C7_EmptyAggregator ==
    \A t \in Procs : (Returning(t) /\ hs(t).count = 0) =>
        /\ status[t].Mean = 0
        /\ status[t].Min = 0
        /\ status[t].M1ErrPercent = 0
        /\ status[t].M5ErrPercent = 0
        /\ status[t].M15ErrPercent = 0

\* A Status of a new aggregator, whose min still is the MaxUint64 sentinel,
\* is about to return.
C7_Witness ==
    \E t \in Procs :
        /\ Returning(t)
        /\ hs(t).count = 0 /\ hs(t).min = MaxUint64

\* C8: every aggregator ever created for a route key is the one installed for
\* that key: one aggregator per key, never replaced.
C8_OneAggregatorPerKey ==
    \A i \in 1..Len(stats) :
        obs[i].key \in DOMAIN httpStats /\ httpStats[obs[i].key] = i

\* C9: no access to hub.httpStats (a lookup, an insertion, a step of the range
\* loop) happens while an insertion by another goroutine is in progress.
C9_MapAccessExclusive ==
    [][ ( \/ \E t \in Threads : UpdLookup(t) \/ UpdInsert(t)
          \/ TickStart \/ RangeNext )
        => mapWriting = {} ]_vars

\* C10: the set of route keys never shrinks and no entry changes its key; an
\* insertion for a key that is not in the map adds an entry for exactly the
\* (method, path) of the call, holding a new aggregator; the Stat of the call
\* records the observation in the aggregator of that key.
C10_LazyCreate ==
    [][ /\ DOMAIN httpStats \subseteq DOMAIN httpStats'
        /\ \A t \in Threads :
              (pc[t] = "insert" /\ pc'[t] = "inserting" /\ key[t] \notin DOMAIN httpStats) =>
                  /\ DOMAIN httpStats' = DOMAIN httpStats \cup {key[t]}
                  /\ \A k \in DOMAIN httpStats : httpStats'[k] = httpStats[k]
                  /\ httpStats'[key[t]] = cur'[t]
                  /\ cur'[t] \notin 1..Len(stats)
                  /\ stats'[cur'[t]] = NewHTTPStat
        /\ \A t \in Threads :
              (pc[t] = "stat" /\ pc'[t] = "export") =>
                  /\ m[t] # NilMetric
                  /\ obs[cur[t]].key = key[t]
                  /\ stats'[cur[t]].count = stats[cur[t]].count + 1
                  /\ obs'[cur[t]].n = obs[cur[t]].n + 1 ]_vars

\* Both route keys have an aggregator, and a goroutine that created one of
\* them has recorded its observation in it.
C10_Witness ==
    \E t \in Threads :
        /\ pc[t] = "export"
        /\ DOMAIN httpStats = Keys
        /\ httpStats[key[t]] = cur[t]
        /\ stats[cur[t]].count = 1

\* C11: a tick, once its range over hub.httpStats has begun, calls Status on
\* every aggregator that was in the map at its start (the process does not end
\* before they are all visited), and the Status it is about to export belongs
\* to the aggregator created for the (method, path) it is exported under.
C11_TickExportsAll ==
    /\ crashed => iter.started \subseteq iter.visited
    /\ pc[Ticker] = "tickexport" => obs[cur[Ticker]].key = key[Ticker]

\* The sparse map of the Count calls made so far: every slot counted at least
\* once, with the number of its Count calls.
Counted == [c \in { x \in Slots : direct.counted[x] > 0 } |-> direct.counted[c]]

OutOfRange(code) == code < 0 \/ code >= CounterLen

\* C13: Count(code) with code < 0 or code >= 1000 can be called and changes
\* no slot (Codes after it equals Codes before it); a Stat with such a status
\* code adds one to count, its milliseconds to total, its byte counts to
\* reqSize and respSize, and leaves the codes of the aggregator as they were.
C13_OutOfRangeDropped ==
    [][ /\ \A code \in CountCodes :
              (OutOfRange(code) /\ Count(code)) =>
                  /\ direct'.counter = direct.counter
                  /\ CounterCodes(direct'.counter) = CounterCodes(direct.counter)
        /\ \A r \in CounterMetrics :
              (OutOfRange(r.StatusCode) /\ StatCall(r)) =>
                  /\ stats'[1].count = stats[1].count + 1
                  /\ stats'[1].total = stats[1].total + Milliseconds(r.Duration)
                  /\ stats'[1].reqSize = stats[1].reqSize + r.ReqSize
                  /\ stats'[1].respSize = stats[1].respSize + r.RespSize
                  /\ CounterCodes(stats'[1].cc) = CounterCodes(stats[1].cc) ]_vars

\* Count(404), a Count call out of range and Stat calls with the status
\* codes -1 and 1000 have been made: both counters hold only what was in range.
C13_Witness ==
    /\ calls = 0
    /\ direct.counted[404] = 1 /\ CounterCodes(direct.counter) = (404 :> 1)
    /\ stats[1].count = 2 /\ stats[1].reqSize = 5
    /\ CounterCodes(stats[1].cc) = <<>>

\* C14: no count is lost: whenever the tick thread is between two rounds of
\* Codes()-then-Reset(), every Count(c) made so far was reported by a Codes()
\* call or is still in slot c for the next one.
C14_NoCountLost ==
    direct.pc = "idle" =>
        \A c \in Slots : direct.reported[c] + direct.counter[c] = direct.counted[c]

\* C15: a Status taken after at least one Stat completed in its window has
\* P25 <= P50 <= P75 <= P95 <= P98 <= P99 <= P999.
C15_PercentilesMonotone ==
    \A t \in Procs : (Returning(t) /\ obs[cur[t]].window > 0) =>
        \A i \in 1..6 : status[t].P[i] <= status[t].P[i + 1]

\* A Status over a window of two different durations: its percentiles differ.
C15_Witness ==
    \E t \in Procs :
        /\ Returning(t)
        /\ obs[cur[t]].window = 2
        /\ status[t].P[1] < status[t].P[7]

\* The positions of a goroutine that executes Status (it holds the write lock).
InStatus == {"tick", "percentiles", "codes", "build", "unlock"}

\* C16: at most one goroutine executes Status on an aggregator at any time, so
\* the read-and-reset sequences of two Status calls never interleave.
C16_OneStatusAtATime ==
    \A t, u \in Procs :
        (t # u /\ cur[t] = cur[u]) => ~(pc[t] \in InStatus /\ pc[u] \in InStatus)

\* One goroutine is between reading the percentiles and resetting the counter
\* while another has called Status on the same aggregator and waits.
C16_Witness ==
    \E t, u \in Threads :
        /\ t # u /\ cur[t] = cur[u]
        /\ pc[t] = "codes" /\ pc[u] = "lock"

\* C17: a Status reports Min = the smallest and Max = the largest duration in
\* milliseconds of the completed Stat calls, Mean = the sum of their
\* milliseconds divided by their number, ReqSize and RespSize = the sums of
\* their byte counts; after the twelve calls of the scenario it reports count
\* 12, errCount 2, min 50, max 500 and mean (10*50 + 2*500) / 12.
C17_SnapshotTotals ==
    \A t \in Procs : (Returning(t) /\ obs[cur[t]].n > 0) =>
        LET o == obs[cur[t]]
            st == status[t]
        IN  /\ st.Min = o.lo /\ st.Max = o.hi
            /\ st.Mean = o.sum \div o.n
            /\ st.ReqSize = o.req /\ st.RespSize = o.resp
            /\ o.n = 12 =>
                  /\ st.Count = 12 /\ st.ErrCount = 2
                  /\ st.Min = 50 /\ st.Max = 500
                  /\ st.Mean = (10 * 50 + 2 * 500) \div 12

\* The Status after the twelve calls of the scenario is about to return.
C17_Witness ==
    \E t \in Procs :
        /\ Returning(t)
        /\ status[t].Count = 12 /\ status[t].Mean = 125
        /\ status[t].ReqSize = 1000 /\ status[t].RespSize = 2000

\* C18: UpdateMetrics, IncMetrics and DecMetrics with a name that is not
\* registered return nil and change no registration and no series.
C18_UnknownNameNoOp ==
    [][ \A name \in MetricNames :
          ( /\ name \notin DOMAIN metricsRegistrations[Hub1]
            /\ \E labels \in UserLabels :
                  \/ \E value \in UserValues : UpdateMetrics(Hub1, name, value, labels)
                  \/ IncMetrics(Hub1, name, labels)
                  \/ DecMetrics(Hub1, name, labels) )
          => /\ ret' = "nil"
             /\ metricsRegistrations' = metricsRegistrations
             /\ collectors' = collectors ]_vars

\* example_gauge is registered and has a series; a call for jobs_total, which
\* is not registered, has returned.
C18_Witness ==
    /\ calls = MetricCalls - 3
    /\ DOMAIN metricsRegistrations[Hub1] = {"example_gauge"}
    /\ metricsRegistrations[Hub1]["example_gauge"].collector = "gaugeMap"
    /\ SeriesOf(metricsRegistrations[Hub1]["example_gauge"]) = (WithFixed(Labels("1001", "ds01", "4090")) :> 8)
    /\ ret = "nil"

\* The label map l cut down to the keys in K.
Restrict(l, K) == [k \in K |-> l[k]]

\* C19: CollectMergedMetrics on an unregistered name returns 'metric not
\* found'; on a registered vector it leaves every series without a
\* MERGED_LABEL value as it was, and afterwards the vector holds, for every
\* distinct combination of values of the non-merged label keys among those
\* series, the series with these values and MERGED_LABEL for every merged
\* label (for a gauge with the sum of the group as its value), and no other
\* new series.
C19_MergedSeries ==
    [][ \A name \in MetricNames, mergedLabels \in MergedLabelSets :
          CollectMergedMetrics(Hub1, name, mergedLabels) =>
            IF name \notin DOMAIN metricsRegistrations[Hub1]
            THEN ret' = "metric not found" /\ collectors' = collectors
            ELSE LET reg == metricsRegistrations[Hub1][name]
                     K == Range(reg.LabelKeys) \ Range(mergedLabels)
                     before == SeriesOf(reg)
                     after == collectors'[reg.collector][reg.Name].series
                     groups == { Restrict(l, K) : l \in Collected(before) }
                     merged(g) == [k \in Range(reg.LabelKeys) |->
                                     IF k \in K THEN g[k] ELSE MergedLabelValue]
                     group(g) == { l \in Collected(before) : Restrict(l, K) = g }
                 IN  reg.collector # "nil" =>
                       /\ ret' = "nil"
                       /\ \A l \in Collected(before) :
                             l \in DOMAIN after /\ after[l] = before[l]
                       /\ DOMAIN after = DOMAIN before \cup { merged(g) : g \in groups }
                       /\ reg.collector = "gaugeMap" =>
                             \A g \in groups : after[merged(g)] = SumOf(before, group(g)) ]_vars

\* C20: RegisterMetric with a name that is registered returns the error
\* 'metric <name> already exists' and leaves the registration (its type, label
\* keys and collector) and the series of its collector as they were.
C20_NamesUnique ==
    [][ \A name \in MetricNames, type \in MetricTypes :
          (name \in DOMAIN metricsRegistrations[Hub1]
           /\ RegisterMetric(Hub1, name, type, UserLabelKeys))
          => /\ ret' = "metric " \o name \o " already exists"
             /\ metricsRegistrations' = metricsRegistrations
             /\ collectors' = collectors ]_vars

\* example_gauge, registered as a gauge and holding a series, was registered
\* again and the call returned the error.
C20_Witness ==
    /\ ret = "metric example_gauge already exists"
    /\ DOMAIN metricsRegistrations[Hub1] = {"example_gauge"}
    /\ metricsRegistrations[Hub1]["example_gauge"].Type = MetricTypeGaugeVec
    /\ DOMAIN SeriesOf(metricsRegistrations[Hub1]["example_gauge"]) # {}

\* The program counters of Stat between RLock and RUnlock: the goroutine holds
\* the read lock and updates the fields of the aggregator.
StatUpdatePcs == {"count", "err", "total", "minload", "mincas", "maxload", "maxcas",
                  "sample", "size", "code", "runlock"}

StatsCompleted(k) == \A t \in Threads : cur[t] = k => pc[t] \notin StatUpdatePcs

\* C22: in every step min does not increase and max does not decrease, and
\* whenever all the Stat calls made on an aggregator have returned, its min is
\* the smallest and its max the largest of the observed durations in
\* milliseconds, whatever the interleaving of the calls was.
C22_MinMaxLinearizable ==
    [][ \A k \in DOMAIN stats :
          /\ stats'[k].min <= stats[k].min
          /\ stats'[k].max >= stats[k].max
          /\ (StatsCompleted(k)' /\ obs'[k].n > 0)
             => /\ stats'[k].min = obs'[k].lo
                /\ stats'[k].max = obs'[k].hi ]_vars

\* At least two Stat calls with different durations have returned, none is
\* under way, and min and max are the smallest and the largest duration.
C22_Witness ==
    /\ StatsCompleted(1)
    /\ obs[1].n >= 2
    /\ stats[1].min < stats[1].max
    /\ stats[1].min = obs[1].lo
    /\ stats[1].max = obs[1].hi

\* C23: every Stat call returns. A compare-and-swap of min fails only if another
\* goroutine has lowered min below the loaded value, one of max only if another
\* has raised max above it, so each loop is left after finitely many retries;
\* and a Stat that waits at RLock for a Status goes on once the Status has
\* released the lock.
C23_StatTerminates ==
    /\ [](\A t \in Threads :
            /\ pc[t] = "mincas" => hs(t).min <= local[t].minN
            /\ pc[t] = "maxcas" => hs(t).max >= local[t].maxN)
    /\ \A t \in Threads :
          (pc[t] = "rlock" \/ pc[t] \in StatUpdatePcs) ~> (pc[t] = "idle")

\* A goroutine is about to fail its compare-and-swap of max, another goroutine
\* having raised max since the load, while the other goroutine is still in Stat.
C23_Witness ==
    \E t \in Threads, u \in Threads :
        /\ pc[t] = "maxcas"
        /\ hs(t).max > local[t].maxN
        /\ pc[u] \in StatUpdatePcs
        /\ u # t

\* The entry of code c in the Codes map of a Status (0 when there is none).
CodeOf(st, c) == IF c \in DOMAIN st.Codes THEN st.Codes[c] ELSE 0

C25_ExporterMatchesAggregator ==
    (~crashed /\ \A t \in Threads : pc[t] = "idle") =>
        \A k \in DOMAIN httpStats :
            /\ With(k).TotalRequests = stats[httpStats[k]].count
            /\ With(k).TotalErrorRequests = stats[httpStats[k]].errCount

\* C26: no step of an UpdateHTTPRequestMetrics call whose requestMetric is nil
\* changes the hub: the route keys and their aggregators, the aggregators'
\* fields and the exporter's series stay as they were.
C26_NilMetricNoEffect ==
    [][ \A t \in Threads :
          ( /\ UpdateHTTPRequestMetrics(t)
            /\ m'[t] = NilMetric
            /\ pc[t] = "idle" \/ m[t] = NilMetric )
          => UNCHANGED <<httpStats, stats, httpMetrics>> ]_vars

\* C27: a RegisterMetric call with an unsupported metric type returns the error
\* and leaves the registrations as they were: the name is not listed by
\* CurrentMetrics after it, so that a later RegisterMetric of the name with a
\* supported type is not refused.
C27_UnsupportedTypeNoEffect ==
    [][ \A name \in MetricNames, type \in MetricTypes :
          ( /\ RegisterMetric(Hub1, name, type, UserLabelKeys)
            /\ name \notin CurrentMetrics(Hub1)
            /\ MapOf(type) = "nil" )
          => /\ ret' = "unsupported metric type: " \o type
             /\ metricsRegistrations' = metricsRegistrations
             /\ name \notin CurrentMetrics(Hub1)' ]_vars

\* C28: UpdateMetrics, IncMetrics and DecMetrics leave the labels map of their
\* caller as it was (the same keys with the same values), and do not fail on a
\* nil labels map.
C28_CallerLabelsUntouched ==
    [][ \A h \in Hubs, name \in MetricNames, labels \in CallerLabels :
          ( \/ \E value \in UserValues : UpdateMetrics(h, name, value, labels)
            \/ IncMetrics(h, name, labels)
            \/ DecMetrics(h, name, labels) )
          => /\ callerLabels' = labels
             /\ ret' # PanicNilMap ]_vars

\* C29: a RegisterMetric of a supported type that succeeds on a hub registers
\* the collector in that hub's own registry, and no registration of another
\* hub holds the same collector; an update made through a hub changes no series
\* another hub exposes.
C29_HubsIndependent ==
    [][ \A h \in Hubs, name \in MetricNames :
          /\ \A type \in {MetricTypeGaugeVec, MetricTypeCounterVec} :
                (name \notin DOMAIN metricsRegistrations[h]
                 /\ RegisterMetric(h, name, type, UserLabelKeys))
                => /\ ret' = "nil"
                   /\ <<MapOf(type), name>> \in registry'[h]
                   /\ \A g \in Hubs \ {h} : \A n \in DOMAIN metricsRegistrations'[g] :
                         ~ ( /\ metricsRegistrations'[g][n].collector = MapOf(type)
                             /\ metricsRegistrations'[g][n].Name = name )
          /\ ( \E labels \in CallerLabels :
                  \/ \E value \in UserValues : UpdateMetrics(h, name, value, labels)
                  \/ IncMetrics(h, name, labels)
                  \/ DecMetrics(h, name, labels) )
             => \A g \in Hubs \ {h} : Exposed(g)' = Exposed(g) ]_vars

====
